---- MODULE Spec2Model ----
(***************************************************************************)
(* Model of the AceNet check script ("Stable - Check AceNet.py"): the      *)
(* identifier loop of automate_search, its session restarts, the per-      *)
(* identifier navigation and the classification rules, together with the   *)
(* result sink append_to_excel.                                            *)
(*                                                                         *)
(* Every Selenium call is an interaction with the environment: it returns, *)
(* times out, or raises.  The outcome is chosen by the environment in the  *)
(* action that makes the call.                                             *)
(***************************************************************************)
EXTENDS Integers, Sequences, FiniteSets, TLC

VARIABLES
    part_numbers,   \* part_numbers, the identifiers read from the input sheet
    pc,             \* position of automate_search in its identifier loop
    idx,            \* idx, the 0-based index into part_numbers
    restart_count,  \* restart_count
    driver,         \* driver: the number of the browser session it refers to
    main_window,    \* main_window: the session whose first window it names
    popups,         \* pop-up windows open in the current session (by the idx that opened them)
    live,           \* the browser sessions that are running
    starts,         \* the number of calls of start_browser_and_login so far
    quit_called,    \* history: the sessions driver.quit() was called on
    events,         \* every call append_to_excel(column, part_number), in call order
    wb,             \* the output sheet: column letter -> entries from row 2 down
    status_text,    \* local status_text
    is_cancelled,   \* local is_cancelled
    is_not_in_rsc,  \* local is_not_in_rsc
    iframe_switched,\* local iframe_switched
    attempt,        \* loop variable of the No Discovery probe loop
    frame_i,        \* loop variable i of the iframe loop
    nframes,        \* len(iframes)
    main_url,       \* local main_url
    popup_window,   \* popup_window: the pop-up the driver switched to (by the idx that opened it)
    focus,          \* where the commands of the driver go: "main", the main window; "popup",
                    \* the top-level document of a pop-up; "frame", an iframe of popup_window;
                    \* "lost", a window that was closed; "none" once driver.quit() was
                    \* called and no session replaced it
    begun,          \* history: <<idx, driver>> for every entry into the per-identifier try block
    rules_run,      \* history: the checks evaluated for the identifier begun last
    nav,            \* history: navigation state reached by the identifier begun last
    observed,       \* history: what the probe made last found on the page
    emitted_before, \* history: len(events) when the identifier begun last was begun
    submitted       \* history: the idx of every search that was submitted

ctl   == <<pc, idx>>
input == <<part_numbers>>
sess  == <<restart_count, driver, main_window, popups, live, starts, quit_called>>
sink  == <<events, wb>>
loc   == <<status_text, is_cancelled, is_not_in_rsc, iframe_switched, attempt, frame_i, nframes,
           main_url, popup_window>>
hist  == <<begun, rules_run, nav, observed, emitted_before, submitted>>
vars  == <<part_numbers, pc, idx, restart_count, driver, main_window, popups, live, starts,
           quit_called,
           events, wb, status_text, is_cancelled, is_not_in_rsc, iframe_switched, attempt,
           frame_i, nframes, main_url, popup_window, focus, begun, rules_run, nav, observed,
           emitted_before, submitted>>

---------------------------------------------------------------------------
(* Bounds of the model *)

\* number of identifiers read from the input sheet
NumParts == 2

\* ceiling of restart_count (the script sets 50; the model checks the
\* ceiling logic at a small value)
max_restarts == 1

\* most iframes a pop-up holds
MaxFrames == 2

\* most calls of append_to_excel the caller of AppendSpec makes
MaxCalls == 2

\* most calls of append_to_excel in a run of automate_search that find the
\* output file locked at each of their attempts
MaxLost == 1

AllParts == <<"A1", "A2", "A3", "A4">>

\* the lists get_part_numbers returns for a PARTNUMBER column of NumParts
\* non-empty cells: one string per cell, in sheet order; cells that hold the
\* same value, or values with the same string (123.0, 123 and '123'), give
\* the same identifier more than once.
\* Of the lists that differ only by a renaming of the identifiers the set
\* holds one: an identifier not seen earlier in the list is the next of
\* AllParts
Parts ==
    { s \in [1..NumParts -> {AllParts[k] : k \in 1..NumParts}] :
        \A i \in 1..NumParts :
           \E k \in 1..i :
              /\ s[i] = AllParts[k]
              /\ k = 1 \/ \E j \in 1..(i - 1) : s[j] = AllParts[k - 1] }

---------------------------------------------------------------------------
(* Result sink: append_to_excel *)

column_map ==
    [c \in {"No Discovery", "No Asterisk(*)", "Cancelled", "On Order",
            "No Location", "Not in AceNet", "Not in RSC"} |->
        CASE c = "No Discovery"   -> "A"
          [] c = "No Asterisk(*)" -> "C"
          [] c = "Cancelled"      -> "E"
          [] c = "On Order"       -> "G"
          [] c = "No Location"    -> "I"
          [] c = "Not in AceNet"  -> "K"
          [] c = "Not in RSC"     -> "M"]

ColumnLetters == {column_map[c] : c \in DOMAIN column_map}

\* for attempt in range(5)
append_attempts == 5

\* a cell whose value is falsy (None or the empty string) counts as empty
IsEmptyCell(v) == v = ""

\* mutant: the scan for the first empty row is left out
FirstEmptyRow_AlwaysRow2(col) == 1

\* current_row after the loop of lines 127-129, as an index into the entries
\* of the column (entry 1 is row 2): the first entry that is empty, or the
\* one after the last
FirstEmptyRow(col) ==
    IF \E r \in 1..Len(col) : IsEmptyCell(col[r])
    THEN CHOOSE r \in 1..Len(col) :
            /\ IsEmptyCell(col[r])
            /\ \A q \in 1..(r - 1) : ~IsEmptyCell(col[q])
    ELSE Len(col) + 1

\* ws[f'{col_letter}{current_row}'] = part_number
WriteCell(col, r, part_number) ==
    IF r <= Len(col) THEN [col EXCEPT ![r] = part_number] ELSE Append(col, part_number)

\* the workbook after append_to_excel(column, part_number): an unknown
\* column returns before the workbook is opened; otherwise the identifier
\* goes into the first empty row of the column
append_to_excel(w, column, part_number) ==
    IF column \notin DOMAIN column_map
    THEN w
    ELSE [w EXCEPT ![column_map[column]] = WriteCell(@, FirstEmptyRow(@), part_number)]

\* the number of entries in the stored workbook
TotalEntries ==
    Len(wb["A"]) + Len(wb["C"]) + Len(wb["E"]) + Len(wb["G"]) + Len(wb["I"])
        + Len(wb["K"]) + Len(wb["M"])

\* the calls of the run so far that persisted nothing
Lost == Len(events) - TotalEntries

\* one call of append_to_excel for the current identifier: one of its
\* attempts saves the workbook with the new entry, or all five raise (the
\* file is locked) and the call returns with the stored file as it was;
\* the caller cannot tell the two apart.  At most MaxLost calls of a run
\* find the file locked.
Emit(column) ==
    /\ events' = Append(events, [part |-> part_numbers[idx + 1], column |-> column])
    /\ \E saved \in (IF Lost < MaxLost THEN BOOLEAN ELSE {TRUE}) :
         wb' = IF saved THEN append_to_excel(wb, column, part_numbers[idx + 1]) ELSE wb

---------------------------------------------------------------------------
(* Texts read from the page.  A text is a sequence of tokens and stands for *)
(* the string " ".join(tokens): adjacent tokens are separated by exactly   *)
(* one blank.  The token " " is itself one blank, so <<"closed", "out">>   *)
(* is the string "closed out" and <<"closed", " ", "out">> is "closed",    *)
(* three blanks, "out".                                                    *)

RECURSIVE LStrip(_)
LStrip(t) == IF t # <<>> /\ Head(t) = " " THEN LStrip(Tail(t)) ELSE t

RECURSIVE RStrip(_)
RStrip(t) == IF t # <<>> /\ t[Len(t)] = " " THEN RStrip(SubSeq(t, 1, Len(t) - 1)) ELSE t

\* str.strip()
Strip(t) == RStrip(LStrip(t))

\* re.IGNORECASE, on the tokens the model draws
Lower(tok) ==
    CASE tok = "Not"       -> "not"
      [] tok = "RSC"       -> "rsc"
      [] tok = "Cancelled" -> "cancelled"
      [] OTHER             -> tok

\* the words of a text: its tokens other than blanks
Words(t) == SelectSeq(t, LAMBDA tok : tok # " ")

\* re.search of a pattern made of words separated by \s+: the words follow
\* each other in the text, with any run of white space between them
SearchWords(words, t) ==
    LET w == Words(t) IN
    \E i \in 1..Len(w) :
        /\ i + Len(words) - 1 <= Len(w)
        /\ \A j \in 1..Len(words) : Lower(w[i + j - 1]) = words[j]

\* re.search of two words separated by the one blank of the pattern
SearchAdjacent(first, second, t) ==
    \E i \in 1..(Len(t) - 1) : Lower(t[i]) = first /\ Lower(t[i + 1]) = second

\* the three "Not in RSC" patterns
MatchesNotInRsc(t) ==
    \/ SearchWords(<<"not", "carried", "in", "your", "rsc">>, t)
    \/ SearchWords(<<"not", "carried", "by", "rsc">>, t)
    \/ SearchWords(<<"not", "in", "rsc">>, t)

\* r'cancel(?:led|lation)?|close(?:out|-out|d out)': the blank of "d out"
\* is a literal blank, not \s+
has_cancelled_or_closeout(t) ==
    \/ \E i \in 1..Len(t) : Lower(t[i]) \in {"cancel", "cancelled", "cancellation"}
    \/ \E i \in 1..Len(t) : Lower(t[i]) \in {"closeout", "close-out"}
    \/ SearchAdjacent("closed", "out", t)

\* r'replacement|discontinued'
has_replacement_or_discontinued(t) ==
    \E i \in 1..Len(t) : Lower(t[i]) \in {"replacement", "discontinued"}

\* the raw texts the status region shows
StatusTexts ==
    { <<>>,
      <<"not", "in", "rsc">>,
      <<"Cancelled">>,
      <<"closed", "out">>,
      <<"closed", " ", "out">>,
      <<"Cancelled", "-", "replacement", "available">> }

\* the raw texts of the discovery region, its link and the location region
PageTexts == { <<" ">>, <<"x", "*">>, <<" ", "Aisle", "4">> }

\* '*' not in link_text
HasAsterisk(t) == \E i \in 1..Len(t) : t[i] = "*"

(* The order-quantity text is a sequence of characters; the words "inf" and *)
(* "nan" are one token each.                                               *)
OrderTexts ==
    { <<"0">>, <<"3", ".", "5">>, <<"N", "/", "A">>, <<" ", "7", " ">>, <<"nan">> }

Digits == {"0", "1", "2", "3", "4", "5", "6", "7", "8", "9"}

DigitValue(c) ==
    CASE c = "0" -> 0 [] c = "1" -> 1 [] c = "2" -> 2 [] c = "3" -> 3 [] c = "4" -> 4
      [] c = "5" -> 5 [] c = "6" -> 6 [] c = "7" -> 7 [] c = "8" -> 8 [] c = "9" -> 9

Unsigned(s) == IF s # <<>> /\ Head(s) \in {"-", "+"} THEN Tail(s) ELSE s

\* float() accepts the text: an optional sign, then "inf", "nan", or digits
\* with at most one point
IsFloat(s) ==
    LET u == Unsigned(Strip(s)) IN
    \/ u \in {<<"inf">>, <<"nan">>}
    \/ /\ \A i \in 1..Len(u) : u[i] \in Digits \cup {"."}
       /\ \E i \in 1..Len(u) : u[i] \in Digits
       /\ Cardinality({i \in 1..Len(u) : u[i] = "."}) <= 1

\* the digits of the text read as one integer (the value scaled by a power of ten)
RECURSIVE Magnitude(_)
Magnitude(u) ==
    IF u = <<>> THEN 0
    ELSE LET c == u[Len(u)]
             r == SubSeq(u, 1, Len(u) - 1)
         IN IF c = "." THEN Magnitude(r) ELSE 10 * Magnitude(r) + DigitValue(c)

\* float(order_text) > 0, for a text float() accepts: nan compares false
\* with every number, inf is greater than zero
FloatPositive(s) ==
    LET t == Strip(s) IN
    /\ ~(t # <<>> /\ Head(t) = "-")
    /\ Unsigned(t) # <<"nan">>
    /\ \/ Unsigned(t) = <<"inf">>
       \/ Unsigned(t) # <<"inf">> /\ Magnitude(Unsigned(t)) > 0

(* Addresses of the main window *)
HomeUrl == <<"https://acenet.aceservices.com", "/">>

SearchUrl(part) == <<"https://acenet.aceservices.com", "/search/product?q=", part>>

\* "/search/product?q=" in main_url
IsSearchPage(url) == \E i \in 1..Len(url) : url[i] = "/search/product?q="

(* What a probe of a page region returns: the raw text of the region, or   *)
(* nothing when the wait times out or raises.                              *)
Absent == [found |-> FALSE, text |-> <<>>]

Found(raw) == [found |-> TRUE, text |-> raw]

---------------------------------------------------------------------------
(* Decisions of automate_search *)

\* mutant: the budget test lets one restart too many through
BudgetExceeded_OffByOne(count) == count > max_restarts + 1

\* restart_count > max_restarts
BudgetExceeded(count) == count > max_restarts

\* rule 1: a non-empty status text that matches a "Not in RSC" pattern
Rule1Fires(t) == t # <<>> /\ MatchesNotInRsc(t)

\* mutant: rule 2 without the replacement test
Rule2Fires_NoReplacementTest(t) == t # <<>> /\ has_cancelled_or_closeout(t)

\* rule 2: a non-empty status text that names a cancellation or closeout and
\* no replacement or discontinuation
Rule2Fires(t) ==
    t # <<>> /\ has_cancelled_or_closeout(t) /\ ~has_replacement_or_discontinued(t)

\* mutant: the two limits are swapped
max_attempts_Swapped == IF idx = 0 THEN 2 ELSE 3

\* max_attempts = 3 if idx == 0 else 2
max_attempts == IF idx = 0 THEN 3 ELSE 2

\* (not element_found or not discovery_text.strip()) and not is_cancelled
NoDiscoveryFires(element_found, discovery_text, cancelled) ==
    (~element_found \/ Strip(discovery_text) = <<>>) /\ ~cancelled

\* mutant: the asterisk test is left out
NoAsteriskFires_IgnoresAsterisk(link_text) == link_text # <<>>

\* link_text and '*' not in link_text
NoAsteriskFires(link_text) == link_text # <<>> /\ ~HasAsterisk(link_text)

\* mutant: order_value >= 0
OnOrderFires_NotNegative(order_text) ==
    /\ IsFloat(order_text)
    /\ Unsigned(Strip(order_text)) # <<"nan">>
    /\ ~(Strip(order_text) # <<>> /\ Head(Strip(order_text)) = "-")

\* float(order_text) succeeds and order_value > 0
OnOrderFires(order_text) == IsFloat(order_text) /\ FloatPositive(order_text)

\* not location_text
NoLocationFires(location_text) == location_text = <<>>

\* len(windows) < 2, windows being the main window and the pop-ups
NoPopupWindow(open_popups) == Cardinality(open_popups) + 1 < 2

---------------------------------------------------------------------------
(* State after lines 349-352: the first session is logged in, idx = 0 *)

LocalsCleared ==
    /\ status_text' = <<>>
    /\ is_cancelled' = FALSE
    /\ is_not_in_rsc' = FALSE
    /\ iframe_switched' = FALSE
    /\ attempt' = 0
    /\ frame_i' = 0
    /\ nframes' = 0
    /\ main_url' = <<>>
    /\ popup_window' = -1

\* the state of every variable but part_numbers
InitRun ==
    /\ pc = "while"
    /\ idx = 0
    /\ restart_count = 0
    /\ driver = 1
    /\ main_window = 1
    /\ popups = {}
    /\ live = {1}
    /\ starts = 1
    /\ quit_called = {}
    /\ events = <<>>
    /\ wb = [l \in ColumnLetters |-> <<>>]
    /\ status_text = <<>>
    /\ is_cancelled = FALSE
    /\ is_not_in_rsc = FALSE
    /\ iframe_switched = FALSE
    /\ attempt = 0
    /\ frame_i = 0
    /\ nframes = 0
    /\ main_url = <<>>
    /\ popup_window = -1
    /\ focus = "main"
    /\ begun = <<>>
    /\ rules_run = {}
    /\ nav = "Idle"
    /\ observed = Absent
    /\ emitted_before = 0
    /\ submitted = <<>>

Init ==
    /\ part_numbers \in Parts
    /\ InitRun

\* idx += 1; continue.  The locals of the loop body are dead at the loop
\* head (each is assigned before it is read: lines 448, 476, 492, 517, 518,
\* 524, 561), so they are cleared here.  Every idx += 1; continue is reached
\* with the focus on the main window: after the switch of line 399, 446,
\* 465, 488, 514, 538, 554 or 630, or in a session just started.
Advance ==
    /\ pc' = "while"
    /\ idx' = idx + 1
    /\ focus' = "main"
    /\ LocalsCleared

\* an exception leaves the try block of line 368 for the handler of line 632;
\* the call that raised did not move the focus
Raise ==
    /\ pc' = "except632"
    /\ UNCHANGED <<idx, focus>>

\* an exception leaves the try block after calls that may have moved the focus
RaiseAt(f) ==
    /\ pc' = "except632"
    /\ focus' = f
    /\ UNCHANGED idx

\* the pop-ups left open and the focus when the clean-up of lines 391-399
\* or 452-465 raises.  Each pop-up is switched to and closed inside a
\* try/except, so any of them may stay open.  The focus is "main" when no
\* switch of the loop succeeded (or the exception came before the loop),
\* "popup" when the pop-up switched to last could not be closed, and "lost",
\* on a window that was closed, when it could; the exception is raised
\* before the loop or by the switch to the main window after it.
CleanupFaults(open) ==
    { o \in (SUBSET open) \X {"main", "popup", "lost"} :
        /\ o[2] = "main"  => o[1] = open
        /\ o[2] = "lost"  => o[1] # open
        /\ o[2] = "popup" => o[1] # {} }

\* mutant: the handle stored before the restart is kept
current_window_handle_Stale(session) == main_window

\* driver.current_window_handle of a session just started: the one window
\* of the session, named by the number of the session
current_window_handle(session) == session

\* start_browser_and_login() and the read of driver.current_window_handle
\* that follows it: the session is launched and logged in and its handle is
\* read; or the session is bound to driver and the read of the handle
\* raises; or the browser is launched and login_and_select_store raises,
\* which leaves the browser running; or webdriver.Chrome raises
StartOutcomes == {"ok", "handle_failed", "login_failed", "launch_failed"}

\* the sessions that may be running after driver.quit() in try/except (the
\* session is closed, or quit raises and the session goes on running); the
\* handler of line 417 then runs taskkill through os.system, whose exit
\* status it does not read: every browser process is killed, or none is
Discarded(kill) ==
    IF kill THEN {{}, live \ {driver}, live} ELSE {live \ {driver}, live}

\* the pop-ups of the session driver refers to, after driver.quit(): they
\* are gone with the session, and still open when the session goes on running
OpenAfterQuit(rest) == IF driver \in rest THEN popups ELSE {}

\* mutant: the handler goes back to the loop head without idx += 1
RestartAfterFault_Retries(kill) ==
    /\ Emit("Not in AceNet")
    /\ restart_count' = restart_count + 1
    /\ quit_called' = quit_called \cup {driver}
    /\ \E rest \in Discarded(kill) :
         IF BudgetExceeded(restart_count + 1)
         THEN /\ pc' = "aborted"
              /\ live' = rest
              /\ popups' = OpenAfterQuit(rest)
              /\ focus' = "none"
              /\ UNCHANGED <<idx, driver, main_window, starts, loc>>
         ELSE /\ starts' = starts + 1
              /\ \E r \in StartOutcomes :
                   CASE r = "ok" ->
                          /\ driver' = starts + 1
                          /\ main_window' = current_window_handle(starts + 1)
                          /\ live' = rest \cup {starts + 1}
                          /\ popups' = {}
                          /\ pc' = "while"
                          /\ focus' = "main"
                          /\ UNCHANGED idx
                          /\ LocalsCleared
                     [] r = "handle_failed" ->
                          /\ pc' = "login_failed"
                          /\ driver' = starts + 1
                          /\ live' = rest \cup {starts + 1}
                          /\ popups' = {}
                          /\ focus' = "main"
                          /\ UNCHANGED <<idx, main_window, loc>>
                     [] r = "login_failed" ->
                          /\ pc' = "login_failed"
                          /\ live' = rest \cup {starts + 1}
                          /\ popups' = OpenAfterQuit(rest)
                          /\ focus' = "none"
                          /\ UNCHANGED <<idx, driver, main_window, loc>>
                     [] r = "launch_failed" ->
                          /\ pc' = "login_failed"
                          /\ live' = rest
                          /\ popups' = OpenAfterQuit(rest)
                          /\ focus' = "none"
                          /\ UNCHANGED <<idx, driver, main_window, loc>>
    /\ UNCHANGED <<input, hist>>

\* mutant: a failed start of the replacement session is skipped over and
\* the loop goes on with the next identifier
RestartAfterFault_SkipsFailedStart(kill) ==
    /\ Emit("Not in AceNet")
    /\ restart_count' = restart_count + 1
    /\ quit_called' = quit_called \cup {driver}
    /\ \E rest \in Discarded(kill) :
         IF BudgetExceeded(restart_count + 1)
         THEN /\ pc' = "aborted"
              /\ live' = rest
              /\ popups' = OpenAfterQuit(rest)
              /\ focus' = "none"
              /\ UNCHANGED <<idx, driver, main_window, starts, loc>>
         ELSE /\ starts' = starts + 1
              /\ \E r \in StartOutcomes :
                   CASE r = "ok" ->
                          /\ driver' = starts + 1
                          /\ main_window' = current_window_handle(starts + 1)
                          /\ live' = rest \cup {starts + 1}
                          /\ popups' = {}
                          /\ Advance
                     [] r = "handle_failed" ->
                          /\ driver' = starts + 1
                          /\ live' = rest \cup {starts + 1}
                          /\ popups' = {}
                          /\ Advance
                          /\ UNCHANGED main_window
                     [] r = "login_failed" ->
                          /\ live' = rest \cup {starts + 1}
                          /\ popups' = OpenAfterQuit(rest)
                          /\ Advance
                          /\ UNCHANGED <<driver, main_window>>
                     [] r = "launch_failed" ->
                          /\ live' = rest
                          /\ popups' = OpenAfterQuit(rest)
                          /\ Advance
                          /\ UNCHANGED <<driver, main_window>>
    /\ UNCHANGED <<input, hist>>

\* driver.quit(); restart_count += 1; the budget test; start_browser_and_login()
\* and the read of the new window handle, as the two fault handlers (lines
\* 417-445 and 632-651) do it; kill is TRUE for the handler of line 417,
\* which runs taskkill after the quit.  An exception of the start or of the
\* read of the handle is caught (lines 441, 647) and ends the loop; when the
\* read raises, driver is the new session and main_window the old handle.
RestartAfterFault(kill) ==
    /\ Emit("Not in AceNet")
    /\ restart_count' = restart_count + 1
    /\ quit_called' = quit_called \cup {driver}
    /\ \E rest \in Discarded(kill) :
         IF BudgetExceeded(restart_count + 1)
         THEN /\ pc' = "aborted"
              /\ live' = rest
              /\ popups' = OpenAfterQuit(rest)
              /\ focus' = "none"
              /\ UNCHANGED <<idx, driver, main_window, starts, loc>>
         ELSE /\ starts' = starts + 1
              /\ \E r \in StartOutcomes :
                   CASE r = "ok" ->
                          /\ driver' = starts + 1
                          /\ main_window' = current_window_handle(starts + 1)
                          /\ live' = rest \cup {starts + 1}
                          /\ popups' = {}
                          /\ Advance
                     [] r = "handle_failed" ->
                          /\ pc' = "login_failed"
                          /\ driver' = starts + 1
                          /\ live' = rest \cup {starts + 1}
                          /\ popups' = {}
                          /\ focus' = "main"
                          /\ UNCHANGED <<idx, main_window, loc>>
                     [] r = "login_failed" ->
                          /\ pc' = "login_failed"
                          /\ live' = rest \cup {starts + 1}
                          /\ popups' = OpenAfterQuit(rest)
                          /\ focus' = "none"
                          /\ UNCHANGED <<idx, driver, main_window, loc>>
                     [] r = "launch_failed" ->
                          /\ pc' = "login_failed"
                          /\ live' = rest
                          /\ popups' = OpenAfterQuit(rest)
                          /\ focus' = "none"
                          /\ UNCHANGED <<idx, driver, main_window, loc>>
    /\ UNCHANGED <<input, hist>>

---------------------------------------------------------------------------
(* The identifier loop, lines 353-651 *)

\* while idx < len(part_numbers): the list is exhausted
LoopExit ==
    /\ pc = "while"
    /\ ~(idx < Len(part_numbers))
    /\ pc' = "exhausted"
    /\ UNCHANGED <<input, idx, sess, sink, loc, focus, hist>>

\* mutant: the restart of a dead session goes on with the next identifier
RestartDeadSession_NextPart ==
    /\ restart_count' = restart_count + 1
    /\ quit_called' = quit_called \cup {driver}
    /\ idx' = idx + 1
    /\ \E rest \in Discarded(FALSE) :
         IF BudgetExceeded(restart_count + 1)
         THEN /\ pc' = "aborted"
              /\ live' = rest
              /\ popups' = OpenAfterQuit(rest)
              /\ focus' = "none"
              /\ UNCHANGED <<driver, main_window, starts>>
         ELSE /\ starts' = starts + 1
              /\ \E r \in StartOutcomes :
                   CASE r = "ok" ->
                          /\ driver' = starts + 1
                          /\ main_window' = current_window_handle(starts + 1)
                          /\ live' = rest \cup {starts + 1}
                          /\ popups' = {}
                          /\ pc' = "search"
                          /\ focus' = "main"
                     [] r = "handle_failed" ->
                          /\ pc' = "unexpected_error"
                          /\ driver' = starts + 1
                          /\ live' = rest \cup {starts + 1}
                          /\ popups' = {}
                          /\ focus' = "main"
                          /\ UNCHANGED main_window
                     [] r = "login_failed" ->
                          /\ pc' = "unexpected_error"
                          /\ live' = rest \cup {starts + 1}
                          /\ popups' = OpenAfterQuit(rest)
                          /\ focus' = "none"
                          /\ UNCHANGED <<driver, main_window>>
                     [] r = "launch_failed" ->
                          /\ pc' = "unexpected_error"
                          /\ live' = rest
                          /\ popups' = OpenAfterQuit(rest)
                          /\ focus' = "none"
                          /\ UNCHANGED <<driver, main_window>>

\* mutant: the replacement session is started before the budget test
RestartDeadSession_StartsFirst ==
    /\ restart_count' = restart_count + 1
    /\ quit_called' = quit_called \cup {driver}
    /\ popups' = {}
    /\ idx' = idx
    /\ starts' = starts + 1
    /\ \E rest \in Discarded(FALSE) :
         /\ live' = rest \cup {starts + 1}
         /\ IF BudgetExceeded(restart_count + 1)
            THEN /\ pc' = "aborted"
                 /\ focus' = "none"
                 /\ UNCHANGED <<driver, main_window>>
            ELSE /\ driver' = starts + 1
                 /\ main_window' = current_window_handle(starts + 1)
                 /\ focus' = "main"
                 /\ pc' = "search"

\* mutant: the restart of a dead session without lines 358-361: driver.quit()
\* is not called, and the session restarted from goes on running
RestartDeadSession_NoQuit ==
    /\ restart_count' = restart_count + 1
    /\ quit_called' = quit_called
    /\ idx' = idx
    /\ IF BudgetExceeded(restart_count + 1)
       THEN /\ pc' = "aborted"
            /\ UNCHANGED <<driver, main_window, popups, live, starts, focus>>
       ELSE /\ starts' = starts + 1
            /\ \E r \in StartOutcomes :
                 CASE r = "ok" ->
                        /\ driver' = starts + 1
                        /\ main_window' = current_window_handle(starts + 1)
                        /\ live' = live \cup {starts + 1}
                        /\ popups' = {}
                        /\ pc' = "search"
                        /\ focus' = "main"
                   [] r = "handle_failed" ->
                        /\ pc' = "unexpected_error"
                        /\ driver' = starts + 1
                        /\ live' = live \cup {starts + 1}
                        /\ popups' = {}
                        /\ focus' = "main"
                        /\ UNCHANGED main_window
                   [] r = "login_failed" ->
                        /\ pc' = "unexpected_error"
                        /\ live' = live \cup {starts + 1}
                        /\ UNCHANGED <<driver, main_window, popups, focus>>
                   [] r = "launch_failed" ->
                        /\ pc' = "unexpected_error"
                        /\ UNCHANGED <<driver, main_window, popups, live, focus>>

\* lines 357-367: driver.quit(), restart_count += 1, the budget test,
\* start_browser_and_login() and the read of the new window handle; no
\* handler of the loop catches an exception of the last two, and when the
\* read raises driver is the new session and main_window the old handle
RestartDeadSession ==
    /\ restart_count' = restart_count + 1
    /\ quit_called' = quit_called \cup {driver}
    /\ idx' = idx
    /\ \E rest \in Discarded(FALSE) :
         IF BudgetExceeded(restart_count + 1)
         THEN /\ pc' = "aborted"
              /\ live' = rest
              /\ popups' = OpenAfterQuit(rest)
              /\ focus' = "none"
              /\ UNCHANGED <<driver, main_window, starts>>
         ELSE /\ starts' = starts + 1
              /\ \E r \in StartOutcomes :
                   CASE r = "ok" ->
                          /\ driver' = starts + 1
                          /\ main_window' = current_window_handle(starts + 1)
                          /\ live' = rest \cup {starts + 1}
                          /\ popups' = {}
                          /\ pc' = "search"
                          /\ focus' = "main"
                     [] r = "handle_failed" ->
                          /\ pc' = "unexpected_error"
                          /\ driver' = starts + 1
                          /\ live' = rest \cup {starts + 1}
                          /\ popups' = {}
                          /\ focus' = "main"
                          /\ UNCHANGED main_window
                     [] r = "login_failed" ->
                          /\ pc' = "unexpected_error"
                          /\ live' = rest \cup {starts + 1}
                          /\ popups' = OpenAfterQuit(rest)
                          /\ focus' = "none"
                          /\ UNCHANGED <<driver, main_window>>
                     [] r = "launch_failed" ->
                          /\ pc' = "unexpected_error"
                          /\ live' = rest
                          /\ popups' = OpenAfterQuit(rest)
                          /\ focus' = "none"
                          /\ UNCHANGED <<driver, main_window>>

\* lines 354-367: the liveness probe and the restart of a dead session
DriverHealthCheck ==
    /\ pc = "while"
    /\ idx < Len(part_numbers)
    /\ \E probe \in {"alive", "dead", "raises"} :
         CASE probe = "alive" ->
                /\ pc' = "search"
                /\ UNCHANGED <<idx, sess, focus>>
           [] probe = "dead" ->
                RestartDeadSession
           [] probe = "raises" ->
                /\ pc' = "unexpected_error"
                /\ UNCHANGED <<idx, sess, focus>>
    /\ UNCHANGED <<input, sink, loc, hist>>

\* lines 368-376: enter the try block, focus the main window, look for the search box
BeginPart ==
    /\ pc = "search"
    /\ begun' = Append(begun, <<idx, driver>>)
    /\ emitted_before' = Len(events)
    /\ rules_run' = {}
    /\ nav' = "Idle"
    /\ observed' = Absent
    /\ \E r \in {"fault", "found", "missing"} :
         CASE r = "fault"   -> pc' = "except632" /\ UNCHANGED focus
           [] r = "found"   -> pc' = "submit" /\ focus' = "main"
           [] r = "missing" -> pc' = "reload" /\ focus' = "main"
    /\ UNCHANGED <<input, idx, sess, sink, loc, submitted>>

\* mutant: an identifier whose search box stays missing is skipped without an event
ReloadHome_SkipsSilently ==
    /\ pc = "reload"
    /\ \E r \in {"fault", "found", "missing", "missing_fault"} :
         CASE r = "fault" ->
                /\ Raise
                /\ UNCHANGED <<popups, sink, loc>>
           [] r = "found" ->
                /\ pc' = "submit"
                /\ focus' = "main"
                /\ UNCHANGED <<idx, popups, sink, loc>>
           [] r = "missing" ->
                /\ \E rest \in SUBSET popups : popups' = rest
                /\ Advance
                /\ UNCHANGED sink
           [] r = "missing_fault" ->
                /\ Emit("Not in AceNet")
                /\ \E o \in CleanupFaults(popups) :
                     /\ popups' = o[1]
                     /\ RaiseAt(o[2])
                /\ UNCHANGED loc
    /\ UNCHANGED <<input, restart_count, driver, main_window, live, starts, quit_called,
                   hist>>

\* lines 377-401: reload the home page and look for the search box again
ReloadHome ==
    /\ pc = "reload"
    /\ \E r \in {"fault", "found", "missing", "missing_fault"} :
         CASE r = "fault" ->
                /\ Raise
                /\ UNCHANGED <<popups, sink, loc>>
           [] r = "found" ->
                /\ pc' = "submit"
                /\ focus' = "main"
                /\ UNCHANGED <<idx, popups, sink, loc>>
           [] r = "missing" ->
                /\ Emit("Not in AceNet")
                /\ \E rest \in SUBSET popups : popups' = rest
                /\ Advance
           [] r = "missing_fault" ->
                /\ Emit("Not in AceNet")
                /\ \E o \in CleanupFaults(popups) :
                     /\ popups' = o[1]
                     /\ RaiseAt(o[2])
                /\ UNCHANGED loc
    /\ UNCHANGED <<input, restart_count, driver, main_window, live, starts, quit_called,
                   hist>>

\* lines 402-408: submit the identifier; the page may open a pop-up
SubmitSearch ==
    /\ pc = "submit"
    /\ \E r \in {"fault", "ok"} :
         CASE r = "fault" ->
                /\ Raise
                /\ UNCHANGED <<popups, nav, submitted>>
           [] r = "ok" ->
                /\ \E opens \in BOOLEAN :
                     popups' = IF opens THEN popups \cup {idx} ELSE popups
                /\ nav' = "Searching"
                /\ submitted' = Append(submitted, idx)
                /\ pc' = "debug"
                /\ UNCHANGED <<idx, focus>>
    /\ UNCHANGED <<input, restart_count, driver, main_window, live, starts, quit_called,
                   sink, loc,
                   begun, rules_run, observed, emitted_before>>

\* lines 409-448: list the windows, return to the main window, read its
\* address.  The listing switches to every window in turn, inside a
\* try/except; when driver.window_handles raises the handler of line 417
\* runs, with the focus where it was; when the switch back of line 446
\* raises the focus is on the window the listing switched to last, the main
\* window or a pop-up; when the read of line 448 raises it is on the main window.
DebugHandles ==
    /\ pc = "debug"
    /\ \E r \in {"handles_fault", "fault", "ok"} :
         CASE r = "handles_fault" ->
                /\ pc' = "except417"
                /\ UNCHANGED <<main_url, focus>>
           [] r = "fault" ->
                /\ pc' = "except632"
                /\ focus' \in {"main"} \cup (IF popups = {} THEN {} ELSE {"popup"})
                /\ UNCHANGED main_url
           [] r = "ok" ->
                /\ \E url \in {HomeUrl, SearchUrl(part_numbers[idx + 1])} : main_url' = url
                /\ focus' = "main"
                /\ pc' = "url"
    /\ UNCHANGED <<input, idx, sess, sink, hist, status_text, is_cancelled, is_not_in_rsc,
                   iframe_switched, attempt, frame_i, nframes, popup_window>>

\* lines 417-445: the handler of a failed window listing
Except417 ==
    /\ pc = "except417"
    /\ RestartAfterFault(TRUE)

\* mutant: an open pop-up is entered before the address is tested
CheckRedirect_PopupFirst ==
    /\ pc = "url"
    /\ IF ~NoPopupWindow(popups)
       THEN /\ nav' = "FrameSearch"
            /\ \E window \in popups : popup_window' = window
            /\ focus' = "popup"
            /\ pc' = "iframes"
            /\ UNCHANGED <<idx, popups, sink, status_text, is_cancelled, is_not_in_rsc,
                           iframe_switched, attempt, frame_i, nframes, main_url>>
       ELSE /\ nav' = IF IsSearchPage(main_url) THEN "Redirected" ELSE "NoPopup"
            /\ Emit("Not in AceNet")
            /\ Advance
            /\ UNCHANGED popups
    /\ UNCHANGED <<input, restart_count, driver, main_window, live, starts, quit_called,
                   begun,
                   emitted_before, submitted,
                   rules_run, observed>>

\* lines 449-479: the redirect test, the window count, the switch to the
\* pop-up.  popup_window is assigned (line 476) before the switch (line 477).
CheckRedirect ==
    /\ pc = "url"
    /\ IF IsSearchPage(main_url)
       THEN /\ nav' = "Redirected"
            /\ Emit("Not in AceNet")
            /\ \E r \in {"ok", "fault"} :
                 CASE r = "ok" ->
                        /\ \E rest \in SUBSET popups : popups' = rest
                        /\ Advance
                   [] r = "fault" ->
                        /\ \E o \in CleanupFaults(popups) :
                             /\ popups' = o[1]
                             /\ RaiseAt(o[2])
                        /\ UNCHANGED loc
       ELSE \E r \in {"ok", "handles_fault", "switch_fault"} :
              CASE r = "handles_fault" ->           \* line 468 raises
                     /\ Raise
                     /\ UNCHANGED <<popups, sink, loc, nav>>
                [] r = "switch_fault" ->            \* line 477 raises
                     /\ ~NoPopupWindow(popups)
                     /\ \E window \in popups : popup_window' = window
                     /\ Raise
                     /\ UNCHANGED <<popups, sink, nav, status_text, is_cancelled,
                                    is_not_in_rsc, iframe_switched, attempt, frame_i,
                                    nframes, main_url>>
                [] r = "ok" ->
                     IF NoPopupWindow(popups)
                     THEN /\ nav' = "NoPopup"
                          /\ Emit("Not in AceNet")
                          /\ Advance
                          /\ UNCHANGED popups
                     ELSE /\ nav' = "FrameSearch"
                          /\ \E window \in popups : popup_window' = window
                          /\ focus' = "popup"
                          /\ pc' = "iframes"
                          /\ UNCHANGED <<idx, popups, sink, status_text, is_cancelled,
                                         is_not_in_rsc, iframe_switched, attempt, frame_i,
                                         nframes, main_url>>
    /\ UNCHANGED <<input, restart_count, driver, main_window, live, starts, quit_called,
                   begun,
                   emitted_before, submitted,
                   rules_run, observed>>

\* lines 480-492: wait for the iframes of the pop-up
FindIframes ==
    /\ pc = "iframes"
    /\ \/ \E n \in 1..MaxFrames :
            /\ nframes' = n
            /\ frame_i' = 0
            /\ iframe_switched' = FALSE
            /\ pc' = "frame"
            /\ UNCHANGED <<idx, sink, nav, status_text, is_cancelled, is_not_in_rsc,
                           attempt, main_url, popup_window, focus>>
       \/ /\ nav' = "NoFrame"
          /\ Emit("Not in AceNet")
          /\ \E r \in {"ok", "fault"} :
               CASE r = "ok"    -> Advance
                 [] r = "fault" -> Raise /\ UNCHANGED loc
    /\ UNCHANGED <<input, sess, begun, emitted_before, submitted, rules_run, observed>>

\* mutant: a frame whose probe failed keeps the focus
TryFrame_StaysInFrame ==
    /\ pc = "frame"
    /\ frame_i < nframes
    /\ \E r \in {"hit", "miss", "fault"} :
         CASE r = "hit" ->
                /\ iframe_switched' = TRUE
                /\ focus' = "frame"
                /\ nav' = "FieldExtraction"
                /\ pc' = "status"
                /\ frame_i' = 0
                /\ nframes' = 0
           [] r = "miss" ->
                /\ frame_i' = frame_i + 1
                /\ focus' = "frame"
                /\ UNCHANGED <<pc, iframe_switched, nav, nframes>>
           [] r = "fault" ->
                /\ pc' = "except632"
                /\ focus' \in {"popup", "frame"}
                /\ UNCHANGED <<frame_i, iframe_switched, nav, nframes>>
    /\ UNCHANGED <<input, idx, sess, sink, rules_run, observed, status_text, begun,
                   emitted_before, submitted,
                   is_cancelled, is_not_in_rsc, attempt, main_url, popup_window>>

\* lines 493-510: one pass of the iframe loop.  The break of line 500 ends
\* the loop: i and iframes are not read again, and are cleared.  A pass
\* misses when the switch to the frame or the probe fails and default_content
\* (line 506 or 510) brings the focus back; it raises when default_content of
\* line 510 raises, with the focus in the frame when the switch had
\* succeeded and on the pop-up when it had not.
TryFrame ==
    /\ pc = "frame"
    /\ frame_i < nframes
    /\ \E r \in {"hit", "miss", "fault"} :
         CASE r = "hit" ->
                /\ iframe_switched' = TRUE
                /\ focus' = "frame"
                /\ nav' = "FieldExtraction"
                /\ pc' = "status"
                /\ frame_i' = 0
                /\ nframes' = 0
           [] r = "miss" ->
                /\ frame_i' = frame_i + 1
                /\ focus' = "popup"
                /\ UNCHANGED <<pc, iframe_switched, nav, nframes>>
           [] r = "fault" ->
                /\ pc' = "except632"
                /\ focus' \in {"popup", "frame"}
                /\ UNCHANGED <<frame_i, iframe_switched, nav, nframes>>
    /\ UNCHANGED <<input, idx, sess, sink, rules_run, observed, status_text, begun,
                   emitted_before, submitted,
                   is_cancelled, is_not_in_rsc, attempt, main_url, popup_window>>

\* mutant: break instead of continue at line 516
NoValidFrame_Breaks ==
    /\ pc = "frame"
    /\ ~(frame_i < nframes)
    /\ ~iframe_switched
    /\ nav' = "NoFrame"
    /\ Emit("Not in AceNet")
    /\ \E r \in {"ok", "fault"} :
         CASE r = "ok"    -> pc' = "exhausted" /\ idx' = idx + 1 /\ focus' = "main" /\ LocalsCleared
           [] r = "fault" -> Raise /\ UNCHANGED loc
    /\ UNCHANGED <<input, sess, begun, emitted_before, submitted, rules_run, observed>>

\* mutant: the continue of line 516 is missing, the body goes on at line 517
NoValidFrame_FallsThrough ==
    /\ pc = "frame"
    /\ ~(frame_i < nframes)
    /\ ~iframe_switched
    /\ nav' = "NoFrame"
    /\ Emit("Not in AceNet")
    /\ \E r \in {"ok", "fault"} :
         CASE r = "ok"    -> pc' = "status" /\ focus' = "main" /\ UNCHANGED <<idx, loc>>
           [] r = "fault" -> Raise /\ UNCHANGED loc
    /\ UNCHANGED <<input, sess, begun, emitted_before, submitted, rules_run, observed>>

\* lines 511-516: no iframe held the content
NoValidFrame ==
    /\ pc = "frame"
    /\ ~(frame_i < nframes)
    /\ ~iframe_switched
    /\ nav' = "NoFrame"
    /\ Emit("Not in AceNet")
    /\ \E r \in {"ok", "fault"} :
         CASE r = "ok"    -> Advance
           [] r = "fault" -> Raise /\ UNCHANGED loc
    /\ UNCHANGED <<input, sess, begun, emitted_before, submitted, rules_run, observed>>

\* lines 517-556: the status text, rule 1 ("Not in RSC") and rule 2 ("Cancelled").
\* The clean-up of rule 1 (lines 536-540) is inside the try block of line 520,
\* so an exception it raises is caught at line 548 and the body goes on at line 551.
\* A clean-up raises at default_content, which leaves the focus where it
\* was, or at the switch to the main window, which leaves it on the pop-up.
CheckStatus ==
    /\ pc = "status"
    /\ rules_run' = rules_run \cup {"Status"}
    /\ \/ \* the status region does not become visible, or the wait raises
          /\ observed' = Absent
          /\ pc' = "discovery"
          /\ is_cancelled' = FALSE
          /\ is_not_in_rsc' = FALSE
          /\ UNCHANGED <<idx, sink, status_text, iframe_switched, attempt, frame_i,
                         nframes, main_url, popup_window, focus>>
       \/ \E raw \in StatusTexts, cleanup \in {"ok", "fault"} :
            LET t == Strip(raw) IN
            /\ observed' = Found(raw)
            /\ IF Rule1Fires(t)
               THEN /\ Emit("Not in RSC")
                    /\ IF cleanup = "ok"
                       THEN Advance
                       ELSE /\ status_text' = t
                            /\ is_not_in_rsc' = TRUE
                            /\ is_cancelled' = FALSE
                            /\ pc' = "discovery"
                            /\ focus' \in {"frame", "popup"}
                            /\ UNCHANGED <<idx, iframe_switched, attempt, frame_i,
                                           nframes, main_url, popup_window>>
               ELSE IF Rule2Fires(t)
               THEN /\ Emit("Cancelled")
                    /\ IF cleanup = "ok"
                       THEN Advance
                       ELSE /\ status_text' = t
                            /\ is_cancelled' = TRUE
                            /\ is_not_in_rsc' = FALSE
                            /\ \E f \in {focus, "popup"} : RaiseAt(f)
                            /\ UNCHANGED <<iframe_switched, attempt, frame_i, nframes,
                                           main_url, popup_window>>
               ELSE /\ status_text' = t
                    /\ is_cancelled' = FALSE
                    /\ is_not_in_rsc' = FALSE
                    /\ pc' = "discovery"
                    /\ UNCHANGED <<idx, sink, iframe_switched, attempt, frame_i, nframes,
                                   main_url, popup_window, focus>>
    /\ UNCHANGED <<input, sess, begun, emitted_before, submitted, nav>>

\* mutant: the probe loop starts over after its last attempt
CheckDiscovery_RetriesForever ==
    /\ pc = "discovery"
    /\ rules_run' = rules_run \cup {"No Discovery"}
    /\ \/ \E raw \in PageTexts :
            /\ observed' = Found(raw)
            /\ IF NoDiscoveryFires(TRUE, Strip(raw), is_cancelled)
               THEN Emit("No Discovery")
               ELSE UNCHANGED sink
            /\ attempt' = 0
            /\ pc' = "asterisk"
       \/ /\ attempt < max_attempts - 1
          /\ observed' = Absent
          /\ attempt' = attempt + 1
          /\ UNCHANGED <<pc, sink>>
       \/ /\ ~(attempt < max_attempts - 1)
          /\ observed' = Absent
          /\ attempt' = 0
          /\ UNCHANGED <<pc, sink>>
       \/ /\ observed' = Absent
          /\ pc' = "except632"
          /\ UNCHANGED <<attempt, sink>>
    /\ UNCHANGED <<input, idx, sess, nav, status_text, is_cancelled, is_not_in_rsc, begun,
                   emitted_before, submitted,
                   iframe_switched, frame_i, nframes, main_url, popup_window, focus>>

\* lines 557-581: one probe of the discovery region, and the No Discovery test
\* once the probe loop has ended
CheckDiscovery ==
    /\ pc = "discovery"
    /\ rules_run' = rules_run \cup {"No Discovery"}
    /\ \/ \E raw \in PageTexts :            \* the region is found: break
            /\ observed' = Found(raw)
            /\ IF NoDiscoveryFires(TRUE, Strip(raw), is_cancelled)
               THEN Emit("No Discovery")
               ELSE UNCHANGED sink
            /\ attempt' = 0
            /\ pc' = "asterisk"
       \/ /\ attempt < max_attempts - 1      \* not found: retry after the delay
          /\ observed' = Absent
          /\ attempt' = attempt + 1
          /\ UNCHANGED <<pc, sink>>
       \/ /\ ~(attempt < max_attempts - 1)   \* not found on the last attempt
          /\ observed' = Absent
          /\ IF NoDiscoveryFires(FALSE, <<>>, is_cancelled)
             THEN Emit("No Discovery")
             ELSE UNCHANGED sink
          /\ attempt' = 0
          /\ pc' = "asterisk"
       \/ /\ observed' = Absent              \* driver.page_source raises in the handler
          /\ pc' = "except632"
          /\ UNCHANGED <<attempt, sink>>
    /\ UNCHANGED <<input, idx, sess, nav, status_text, is_cancelled, is_not_in_rsc, begun,
                   emitted_before, submitted,
                   iframe_switched, frame_i, nframes, main_url, popup_window, focus>>

\* lines 582-593: the link inside the discovery region
CheckAsterisk ==
    /\ pc = "asterisk"
    /\ rules_run' = rules_run \cup {"No Asterisk(*)"}
    /\ \/ \E raw \in PageTexts :
            /\ observed' = Found(raw)
            /\ IF NoAsteriskFires(Strip(raw))
               THEN Emit("No Asterisk(*)")
               ELSE UNCHANGED sink
       \/ /\ observed' = Absent               \* no link, or the wait raises
          /\ UNCHANGED sink
    /\ pc' = "onorder"
    /\ UNCHANGED <<input, idx, sess, loc, focus, begun, emitted_before, submitted, nav>>

\* lines 594-611: the order-quantity display
CheckOnOrder ==
    /\ pc = "onorder"
    /\ rules_run' = rules_run \cup {"On Order"}
    /\ \/ \E raw \in OrderTexts :
            /\ observed' = Found(raw)
            /\ IF OnOrderFires(Strip(raw))
               THEN Emit("On Order")
               ELSE UNCHANGED sink
       \/ /\ observed' = Absent               \* not visible, or the wait raises
          /\ UNCHANGED sink
    /\ pc' = "location"
    /\ UNCHANGED <<input, idx, sess, loc, focus, begun, emitted_before, submitted, nav>>

\* mutant: the text of the location region is tested without strip()
CheckLocation_NoStrip ==
    /\ pc = "location"
    /\ rules_run' = rules_run \cup {"No Location"}
    /\ \/ \E raw \in PageTexts :
            /\ observed' = Found(raw)
            /\ IF NoLocationFires(raw)
               THEN Emit("No Location")
               ELSE UNCHANGED sink
       \/ /\ observed' = Absent
          /\ Emit("No Location")
    /\ pc' = "cleanup"
    /\ UNCHANGED <<input, idx, sess, loc, focus, begun, emitted_before, submitted, nav>>

\* lines 612-627: the location region
CheckLocation ==
    /\ pc = "location"
    /\ rules_run' = rules_run \cup {"No Location"}
    /\ \/ \E raw \in PageTexts :
            /\ observed' = Found(raw)
            /\ IF NoLocationFires(Strip(raw))
               THEN Emit("No Location")
               ELSE UNCHANGED sink
       \/ /\ observed' = Absent               \* not found, or the wait raises
          /\ Emit("No Location")
    /\ pc' = "cleanup"
    /\ UNCHANGED <<input, idx, sess, loc, focus, begun, emitted_before, submitted, nav>>

\* lines 628-631: leave the iframe, focus the main window, next identifier
Cleanup ==
    /\ pc = "cleanup"
    /\ \E r \in {"ok", "fault"} :
         CASE r = "ok"    -> Advance
           [] r = "fault" -> (\E f \in {focus, "popup"} : RaiseAt(f)) /\ UNCHANGED loc
    /\ UNCHANGED <<input, sess, sink, hist>>

\* lines 632-651: the handler of every exception that leaves the try block
OuterExcept ==
    /\ pc = "except632"
    /\ RestartAfterFault(FALSE)

Next ==
    \/ LoopExit
    \/ DriverHealthCheck
    \/ BeginPart
    \/ ReloadHome
    \/ SubmitSearch
    \/ DebugHandles
    \/ Except417
    \/ CheckRedirect
    \/ FindIframes
    \/ TryFrame
    \/ NoValidFrame
    \/ CheckStatus
    \/ CheckDiscovery
    \/ CheckAsterisk
    \/ CheckOnOrder
    \/ CheckLocation
    \/ Cleanup
    \/ OuterExcept

Spec == Init /\ [][Next]_vars

\* every step of the loop body returns in bounded time (each wait has a timeout)
FairSpec == Spec /\ WF_vars(Next)

---------------------------------------------------------------------------
(* The end-to-end run of three identifiers against a catalogue that answers *)
(* every call: "A1" is redirected to the search page, the search of "A2"   *)
(* and of "A3" opens a pop-up each.  The pop-up of "A2" shows no status    *)
(* signal, an empty discovery text, a link without asterisk, no order      *)
(* quantity and a location; the pop-up of "A3" shows a cancelled status.   *)

ScenarioParts == <<"A1", "A2", "A3">>

ScenarioInit ==
    /\ part_numbers = ScenarioParts
    /\ InitRun

\* what the regions of the pop-up opened by the search of part_numbers[j + 1] show
ScenarioPage(j) ==
    IF part_numbers[j + 1] = "A3"
    THEN [status    |-> {Found(<<"Cancelled">>), Found(<<"closed", "out">>)},
          discovery |-> {Found(<<" ", "Aisle", "4">>)},
          link      |-> {Found(<<"x", "*">>)},
          order     |-> {Absent},
          location  |-> {Found(<<" ", "Aisle", "4">>)}]
    ELSE [status    |-> {Absent, Found(<<>>), Found(<<"closed", " ", "out">>),
                         Found(<<"Cancelled", "-", "replacement", "available">>)},
          discovery |-> {Found(<<" ">>)},
          link      |-> {Found(<<" ", "Aisle", "4">>)},
          order     |-> {Absent, Found(<<"0">>), Found(<<"N", "/", "A">>), Found(<<"nan">>)},
          location  |-> {Found(<<" ", "Aisle", "4">>), Found(<<"x", "*">>)}]

\* the answers of the catalogue and of the browser in this run: no call
\* raises, every append is saved, the session stays alive, the search box is
\* there, the main window
\* is redirected for "A1" only, one pop-up opens for each other identifier,
\* one of its iframes holds the content, and every probe reads the page of
\* the window that has the focus
ScenarioStep ==
    /\ pc' \notin {"except632", "except417", "unexpected_error", "aborted",
                   "login_failed", "reload"}
    /\ restart_count' = restart_count
    /\ events' # events => wb' # wb
    /\ pc = "submit" => popups' = (IF part_numbers[idx + 1] = "A1"
                                   THEN popups ELSE popups \cup {idx})
    /\ pc = "debug" => (IsSearchPage(main_url') <=> part_numbers[idx + 1] = "A1")
    /\ pc = "iframes" => pc' = "frame"
    /\ pc = "frame" => (pc' = "status" \/ frame_i' < nframes)
    /\ pc = "status" => observed' \in ScenarioPage(popup_window).status
    /\ (pc = "discovery" /\ pc' = "asterisk") =>
          observed' \in ScenarioPage(popup_window).discovery
    /\ pc = "asterisk" => observed' \in ScenarioPage(popup_window).link
    /\ pc = "onorder" => observed' \in ScenarioPage(popup_window).order
    /\ pc = "location" => observed' \in ScenarioPage(popup_window).location

ScenarioNext ==
    \/ LoopExit /\ ScenarioStep
    \/ DriverHealthCheck /\ ScenarioStep
    \/ BeginPart /\ ScenarioStep
    \/ SubmitSearch /\ ScenarioStep
    \/ DebugHandles /\ ScenarioStep
    \/ CheckRedirect /\ ScenarioStep
    \/ FindIframes /\ ScenarioStep
    \/ TryFrame /\ ScenarioStep
    \/ CheckStatus /\ ScenarioStep
    \/ CheckDiscovery /\ ScenarioStep
    \/ CheckAsterisk /\ ScenarioStep
    \/ CheckOnOrder /\ ScenarioStep
    \/ CheckLocation /\ ScenarioStep
    \/ Cleanup /\ ScenarioStep

ScenarioSpec == ScenarioInit /\ [][ScenarioNext]_vars

---------------------------------------------------------------------------
(* append_to_excel attempt by attempt, lines 104-148.  In Spec a call of    *)
(* append_to_excel is one step, which persists the entry or not.  Here the  *)
(* caller makes up to MaxCalls calls with any column                        *)
(* name and identifier, and each attempt of a call may fail: load_workbook, *)
(* the sheet lookup or wb.save raises, and the stored file stays as it was. *)
(* pc is "caller" outside the function and "append" inside its loop;        *)
(* attempt is the loop variable of line 121, 0 to 4, and keeps its value    *)
(* after the return; events holds the calls made; wb is the stored workbook.*)

\* the column names the caller may pass: the seven of column_map and another
CallColumns == DOMAIN column_map \cup {"Not a column"}

AppendInit ==
    /\ part_numbers \in Parts
    /\ pc = "caller"
    /\ idx = 0
    /\ restart_count = 0
    /\ driver = 1
    /\ main_window = 1
    /\ popups = {}
    /\ live = {1}
    /\ starts = 1
    /\ quit_called = {}
    /\ events = <<>>
    /\ wb = [l \in ColumnLetters |-> <<>>]
    /\ status_text = <<>>
    /\ is_cancelled = FALSE
    /\ is_not_in_rsc = FALSE
    /\ iframe_switched = FALSE
    /\ attempt = 0
    /\ frame_i = 0
    /\ nframes = 0
    /\ main_url = <<>>
    /\ popup_window = -1
    /\ focus = "main"
    /\ begun = <<>>
    /\ rules_run = {}
    /\ nav = "Idle"
    /\ observed = Absent
    /\ emitted_before = 0
    /\ submitted = <<>>

\* lines 104-120: the call; an unknown column returns at line 118
AppendToExcelCall ==
    /\ pc = "caller"
    /\ Len(events) < MaxCalls
    /\ \E column \in CallColumns, i \in 1..Len(part_numbers) :
         /\ events' = Append(events, [part |-> part_numbers[i], column |-> column])
         /\ pc' = IF column \in DOMAIN column_map THEN "append" ELSE "caller"
    /\ attempt' = 0
    /\ UNCHANGED <<input, idx, sess, wb, status_text, is_cancelled, is_not_in_rsc,
                   iframe_switched, frame_i, nframes, main_url, popup_window, focus, hist>>

\* mutant: the return of line 143 is missing, the loop goes on after a save
AppendToExcelAttempt_NoReturn ==
    /\ pc = "append"
    /\ LET call == events[Len(events)] IN
       \E r \in {"saved", "raises"} :
         /\ wb' = IF r = "saved" THEN append_to_excel(wb, call.column, call.part) ELSE wb
         /\ attempt' = IF attempt + 1 < append_attempts THEN attempt + 1 ELSE attempt
         /\ pc' = IF attempt + 1 < append_attempts THEN "append" ELSE "caller"
    /\ UNCHANGED <<input, idx, sess, events, status_text, is_cancelled, is_not_in_rsc,
                   iframe_switched, frame_i, nframes, main_url, popup_window, focus, hist>>

\* lines 121-148: one pass of the loop: the workbook is loaded, changed and
\* saved, and the function returns; or a call raises before the file is
\* written, and the loop goes on with the next value of attempt or, when
\* range(5) is exhausted, ends with attempt at its last value, 4
AppendToExcelAttempt ==
    /\ pc = "append"
    /\ LET call == events[Len(events)] IN
       \E r \in {"saved", "raises"} :
         CASE r = "saved" ->
                /\ wb' = append_to_excel(wb, call.column, call.part)
                /\ pc' = "caller"
                /\ UNCHANGED attempt
           [] r = "raises" ->
                /\ wb' = wb
                /\ IF attempt + 1 < append_attempts
                   THEN attempt' = attempt + 1 /\ pc' = "append"
                   ELSE attempt' = attempt /\ pc' = "caller"
    /\ UNCHANGED <<input, idx, sess, events, status_text, is_cancelled, is_not_in_rsc,
                   iframe_switched, frame_i, nframes, main_url, popup_window, focus, hist>>

AppendNext ==
    \/ AppendToExcelCall
    \/ AppendToExcelAttempt

AppendSpec == AppendInit /\ [][AppendNext]_vars

---------------------------------------------------------------------------
(* Vocabulary of the properties *)

Running == {"while", "search", "reload", "submit", "debug", "except417", "url",
            "iframes", "frame", "status", "discovery", "asterisk", "onorder",
            "location", "cleanup", "except632"}

\* the loop has been left
LoopLeft == pc \notin Running

\* the events handed to the sink in the iteration that began last: the
\* iteration of the identifier being processed or, at the loop head, of the
\* one before
PassEvents == SubSeq(events, emitted_before + 1, Len(events))

\* the categories of these events
PassCategories == {PassEvents[i].column : i \in 1..Len(PassEvents)}

\* the 0-based index of identifier p in part_numbers
IndexOf(p) == CHOOSE i \in 0..(Len(part_numbers) - 1) : part_numbers[i + 1] = p

\* the identifier whose processing began last
LastBegun == part_numbers[begun[Len(begun)][1] + 1]

IsPrefix(a, b) == Len(a) <= Len(b) /\ SubSeq(b, 1, Len(a)) = a

Rule3Checks == {"No Discovery", "No Asterisk(*)", "On Order", "No Location"}

\* the fault handler of line 632, and the two ways it ends the run
FaultHandled == {"except632", "aborted", "login_failed"}

\* the status text matches the cancellation pattern and the replacement pattern
MatchesBoth(t) == has_cancelled_or_closeout(t) /\ has_replacement_or_discontinued(t)

\* every identifier begun so far was begun once, in list order
BegunOnceInOrder == \A j \in 1..Len(begun) : begun[j][1] = j - 1

---------------------------------------------------------------------------
(* C1 *)

\* C1: every category handed to the sink is one of the seven columns, and an
\* identifier that received "Not in AceNet" while it was processed received
\* no other category.
C1_NotInCatalogExclusive ==
    /\ \A i \in 1..Len(events) : events[i].column \in DOMAIN column_map
    /\ "Not in AceNet" \in PassCategories => PassCategories = {"Not in AceNet"}

(* C2 *)

\* C2: an identifier whose status text matched the "Not in RSC" pattern has
\* "Not in RSC" as the only category of its iteration, and none of the later
\* checks was evaluated for it.
C2_NotInRscOnly ==
    /\ "Not in RSC" \in PassCategories => PassCategories = {"Not in RSC"}
    /\ is_not_in_rsc => rules_run \cap Rule3Checks = {}

(* C3 *)

\* C3: an identifier for which rule 2 fired (rule 1 did not) has "Cancelled"
\* as the only category of its iteration, and the four checks of rule 3 were
\* skipped for it.
C3_CancelledOnly ==
    /\ "Cancelled" \in PassCategories => PassCategories = {"Cancelled"}
    /\ is_cancelled => rules_run \cap Rule3Checks = {}

(* C4 *)

\* C4 as stated: once the status text of an identifier matched both the
\* cancellation and the replacement pattern, "Cancelled" is not emitted for
\* it and, when its processing ends, all four checks of rule 3 have been
\* evaluated.
C4_AllFourEvaluated ==
    MatchesBoth(status_text) =>
        /\ "Cancelled" \notin PassCategories
        /\ pc \in {"cleanup", "except632"} => Rule3Checks \subseteq rules_run

\* C4 as amended: "Cancelled" is not emitted and rule 3 is entered: the
\* No Discovery check is evaluated; the other three checks are evaluated too
\* unless an exception raised while a miss of the discovery probe is handled
\* ends the identifier in the fault handler.
C4_Rule3Entered ==
    MatchesBoth(status_text) =>
        /\ "Cancelled" \notin PassCategories
        /\ is_cancelled = FALSE
        /\ pc \in {"discovery", "asterisk", "onorder", "location", "cleanup"} \cup FaultHandled
        /\ pc # "discovery" => "No Discovery" \in rules_run
        /\ pc = "cleanup" => Rule3Checks \subseteq rules_run
        /\ pc \in FaultHandled =>
              \/ rules_run = {"Status", "No Discovery"}
              \/ Rule3Checks \subseteq rules_run

\* C4 witness: a "Cancelled - replacement available" identifier has passed all four checks
C4_Witness ==
    /\ status_text = <<"Cancelled", "-", "replacement", "available">>
    /\ pc = "cleanup"
    /\ Rule3Checks \subseteq rules_run

(* C5 *)

\* C5: a liveness probe that fails before identifier k, within the budget,
\* causes exactly one restart (restart_count grows by one, one new session)
\* and leaves idx at k; the identifier whose processing begins next is k, on
\* the new session; every identifier is begun once, in list order, so k is
\* not skipped and none before k is begun again.
C5_RestartResumesAtSamePart ==
    /\ [](/\ BegunOnceInOrder
          /\ pc \in (Running \ {"while", "search"}) =>
                begun # <<>> /\ begun[Len(begun)] = <<idx, driver>>)
    /\ [][ (pc = "while" /\ restart_count' # restart_count) =>
              /\ restart_count' = restart_count + 1
              /\ idx' = idx
              /\ events' = events
              /\ pc' \in {"search", "aborted", "unexpected_error"}
              /\ pc' = "search" =>
                    /\ restart_count' <= max_restarts
                    /\ driver' = driver + 1
                    /\ main_window' = driver' ]_vars
    /\ [][ pc = "search" => begun' = Append(begun, <<idx, driver>>) ]_vars

\* C5 witness: the probe failed before the second identifier, which was then
\* begun on session 2 after the first was begun on session 1
C5_Witness ==
    /\ begun = << <<0, 1>>, <<1, 2>> >>
    /\ restart_count = 1
    /\ events = <<>>

(* C6 *)

\* C6: the step that takes restart_count above max_restarts halts the run;
\* the sink is only ever appended to, so the events of the identifiers
\* processed before are still there; the halted run holds no event for an
\* identifier after the one at which the budget was exceeded and emits none.
C6_HaltKeepsEvents ==
    [][ /\ IsPrefix(events, events')
        /\ \A l \in ColumnLetters : IsPrefix(wb[l], wb'[l])
        /\ restart_count' > max_restarts => pc' = "aborted"
        /\ pc' = "aborted" =>
              /\ restart_count' = max_restarts + 1
              /\ \A i \in 1..Len(events') :
                    \E j \in 1..(idx' + 1) : events'[i].part = part_numbers[j]
        /\ pc = "aborted" => events' = events ]_vars

\* C6 witness: the budget ran out at the second identifier; the event of the
\* first is in the sink
C6_Witness ==
    /\ pc = "aborted"
    /\ restart_count = max_restarts + 1
    /\ idx = 1
    /\ Len(events) >= 1
    /\ events[1].part = part_numbers[1]
    /\ Len(wb[column_map[events[1].column]]) >= 1
    /\ wb[column_map[events[1].column]][1] = part_numbers[1]

(* C7 *)

\* C7 as stated: when the loop has been left, the identifier list is
\* exhausted or the restart budget is exceeded.
C7_OnlyExhaustedOrBudget ==
    LoopLeft => \/ idx = Len(part_numbers)
                \/ restart_count > max_restarts

\* C7 as amended: the loop is left only (a) at the loop head with the list
\* exhausted, (b) by the budget test of the health check or of a fault
\* handler, with the budget exceeded, (c) by a fault handler whose
\* replacement session fails to start, or (d) at the health check, by an
\* error of the probe or of the session start that no handler of the loop
\* catches; it is never left from a navigation or classification step.
C7_LoopExits ==
    [][ (pc \in Running /\ pc' \notin Running) =>
          \/ /\ pc = "while" /\ pc' = "exhausted"
             /\ idx = Len(part_numbers)
          \/ /\ pc \in {"while", "except417", "except632"} /\ pc' = "aborted"
             /\ restart_count' > max_restarts
          \/ /\ pc \in {"except417", "except632"} /\ pc' = "login_failed"
             /\ restart_count' <= max_restarts
          \/ /\ pc = "while" /\ pc' = "unexpected_error"
             /\ idx < Len(part_numbers)
             /\ restart_count' <= max_restarts ]_vars

\* C7 witness: a fault handler could not start the replacement session; the
\* list is not exhausted and the budget is not exceeded
C7_Witness ==
    /\ pc = "login_failed"
    /\ idx < Len(part_numbers)
    /\ restart_count <= max_restarts

(* C8 *)

\* the place of a step of the loop body, counted from the end of the body
PcRank ==
    CASE pc = "while"     -> 16
      [] pc = "search"    -> 15
      [] pc = "reload"    -> 14
      [] pc = "submit"    -> 13
      [] pc = "debug"     -> 12
      [] pc = "url"       -> 11
      [] pc = "iframes"   -> 10
      [] pc = "frame"     -> 9
      [] pc = "status"    -> 8
      [] pc = "discovery" -> 7
      [] pc = "asterisk"  -> 6
      [] pc = "onorder"   -> 5
      [] pc = "location"  -> 4
      [] pc = "cleanup"   -> 3
      [] pc = "except417" -> 2
      [] pc = "except632" -> 1
      [] OTHER            -> 0

\* the passes left in the inner loop the driver is in
PassesLeft ==
    CASE pc = "frame"     -> nframes - frame_i
      [] pc = "discovery" -> max_attempts - attempt
      [] OTHER            -> 0

\* the steps the loop can still take, at most: identifiers left, then the
\* place in the body, then the passes left in the inner loop
StepsLeft == ((Len(part_numbers) - idx) * 17 + PcRank) * (MaxFrames + 4) + PassesLeft

\* a step of the loop is possible; where the link or the order quantity is
\* probed, the step shown possible is the one whose probe finds nothing
StepPossible ==
    CASE pc = "asterisk" -> ENABLED (observed' = Absent /\ CheckAsterisk)
      [] pc = "onorder"  -> ENABLED (observed' = Absent /\ CheckOnOrder)
      [] OTHER           -> ENABLED Next

\* C8: when every step returns in bounded time, every run leaves the loop:
\* inside the loop a step is always possible, each step taken inside the
\* loop lowers StepsLeft, and StepsLeft is a natural number; so the loop is
\* left after at most StepsLeft steps, whatever the pages answer and
\* whichever calls raise.
C8_LoopTerminates ==
    /\ [](/\ StepsLeft \in Nat
          /\ PassesLeft \in 0..(MaxFrames + 3)
          /\ pc \in Running => StepPossible)
    /\ [][ (pc \in Running) => StepsLeft' < StepsLeft ]_vars

\* C8 witness: a run that used its whole restart budget went through every
\* identifier and left the loop
C8_Witness ==
    /\ pc = "exhausted"
    /\ restart_count = max_restarts
    /\ Len(begun) = Len(part_numbers)

(* C9 *)

\* C9: the handler of an exception that leaves the try block appends exactly
\* one event, "Not in AceNet" for the current identifier, evaluates no check,
\* and either ends the run or goes to the next identifier with a new session;
\* no identifier is begun twice.
C9_FaultFallback ==
    /\ []BegunOnceInOrder
    /\ [][ pc = "except632" =>
              /\ events' = Append(events, [part |-> part_numbers[idx + 1],
                                           column |-> "Not in AceNet"])
              /\ rules_run' = rules_run
              /\ restart_count' = restart_count + 1
              /\ pc' \in {"while", "aborted", "login_failed"}
              /\ pc' = "while" =>
                    /\ idx' = idx + 1
                    /\ driver' > driver
                    /\ main_window' = driver' ]_vars

\* C9 witness: an exception during the checks of the first identifier left it
\* with the one fallback event, and the next is due on session 2
C9_Witness ==
    /\ pc = "while"
    /\ idx = 1
    /\ driver = 2
    /\ "No Discovery" \in rules_run
    /\ events = <<[part |-> part_numbers[1], column |-> "Not in AceNet"]>>

(* C10 *)

\* C10: an identifier blocked at Redirected, NoPopup or NoFrame has the one
\* category "Not in AceNet", and none of the checks of rules 1-3 was evaluated for it.
C10_BlockedOnlyNotInCatalog ==
    nav \in {"Redirected", "NoPopup", "NoFrame"} =>
        /\ begun # <<>>
        /\ PassCategories = {"Not in AceNet"}
        /\ rules_run = {}

\* C10 witness: the first identifier was blocked for want of a valid iframe
C10_Witness ==
    /\ nav = "NoFrame"
    /\ pc = "while"
    /\ idx = 1
    /\ events = <<[part |-> part_numbers[1], column |-> "Not in AceNet"]>>

---------------------------------------------------------------------------
(* C11 *)

\* C11: whenever the Searching step of an identifier starts, the window set
\* of the session holds only the main window: no pop-up is open.
C11_OnlyMainAtSearch == pc = "search" => popups = {}

(* C12 *)

\* C12: restart_count is 0 at the start of the run and never decreases; a
\* session is started only by a restart whose incremented counter is within
\* max_restarts, so at most max_restarts restarts are performed and at most
\* max_restarts + 1 sessions are started.
C12_RestartBudget ==
    /\ restart_count = 0
    /\ [](/\ restart_count \in 0..(max_restarts + 1)
          /\ starts <= restart_count + 1
          /\ starts <= max_restarts + 1)
    /\ [][ /\ restart_count' >= restart_count
           /\ starts' # starts =>
                 /\ starts' = starts + 1
                 /\ restart_count' = restart_count + 1
                 /\ restart_count' <= max_restarts ]_vars

\* C12 witness: the whole budget was spent on restarts and the run goes on
\* with the last session the budget allows
C12_Witness ==
    /\ pc = "search"
    /\ restart_count = max_restarts
    /\ starts = max_restarts + 1
    /\ driver = max_restarts + 1

(* C13 *)

\* a call of start_browser_and_login raised: one more call was made than
\* sessions were handed back
StartFailed == starts > driver

\* C13: once a session start has raised, the run is over: the loop has been
\* left, and no identifier is begun, no event is emitted, no session is
\* started and restart_count is not incremented any more.
C13_StartFailureFatal ==
    /\ [](StartFailed => pc \in {"login_failed", "unexpected_error"})
    /\ [][ StartFailed =>
              /\ begun' = begun
              /\ events' = events
              /\ starts' = starts
              /\ restart_count' = restart_count
              /\ idx' = idx ]_vars

\* C13 witness: the login of the replacement session failed in the fault
\* handler of the first identifier; the second identifier was never begun
C13_Witness ==
    /\ StartFailed
    /\ pc = "login_failed"
    /\ restart_count = 1
    /\ idx = 0
    /\ Len(begun) = 1
    /\ Len(part_numbers) > 1

(* C14 *)

\* the place of a check of rule 3 in the order of evaluation
Rule3Rank(column) ==
    CASE column = "No Discovery"   -> 1
      [] column = "No Asterisk(*)" -> 2
      [] column = "On Order"       -> 3
      [] column = "No Location"    -> 4

\* the events of the three-identifier run, as the specification expects them
ScenarioEvents ==
    << [part |-> "A1", column |-> "Not in AceNet"],
       [part |-> "A2", column |-> "No Discovery"],
       [part |-> "A2", column |-> "No Asterisk(*)"],
       [part |-> "A3", column |-> "Cancelled"] >>

\* events are in identifier order, and the rule-3 events of one identifier
\* are in the order No Discovery, No Asterisk(*), On Order, No Location
EventsInOrder ==
    \A i, j \in 1..Len(events) :
        i < j =>
          /\ IndexOf(events[i].part) <= IndexOf(events[j].part)
          /\ ( /\ events[i].part = events[j].part
               /\ events[i].column \in Rule3Checks
               /\ events[j].column \in Rule3Checks )
                => Rule3Rank(events[i].column) < Rule3Rank(events[j].column)

\* C14: events reach the sink in identifier order and, within an identifier,
\* in the order of the rule-3 checks; the run of "A1" (redirected), "A2"
\* (empty discovery text, link without asterisk) and "A3" (cancelled) ends
\* with exactly the events (A1, Not in AceNet), (A2, No Discovery),
\* (A2, No Asterisk(*)), (A3, Cancelled).
C14_ScenarioEvents ==
    /\ EventsInOrder
    /\ pc = "exhausted" => events = ScenarioEvents

(* C15 *)

\* the identifiers handed to append_to_excel for a column, in call order
Entries(column) ==
    LET es == SelectSeq(events, LAMBDA e : e.column = column)
    IN [i \in 1..Len(es) |-> es[i].part]

\* a is b with some of its entries left out
RECURSIVE IsSubsequence(_, _)
IsSubsequence(a, b) ==
    IF a = <<>> THEN TRUE
    ELSE IF b = <<>> THEN FALSE
    ELSE IF Head(a) = Head(b) THEN IsSubsequence(Tail(a), Tail(b))
    ELSE IsSubsequence(a, Tail(b))

\* C15: an append that is saved puts the identifier after the last entry of
\* its column, which is the first empty row, and changes no other entry and
\* no other column; an append that is not saved, and every other step,
\* leaves the sheet as it is.  So each column holds, from row 2 down and
\* without a gap, identifiers appended to it, in the order of the appends.
C15_AppendOnly ==
    /\ [](\A column \in DOMAIN column_map :
            /\ IsSubsequence(wb[column_map[column]], Entries(column))
            /\ \A r \in 1..Len(wb[column_map[column]]) :
                  ~IsEmptyCell(wb[column_map[column]][r]))
    /\ [][ /\ events' = events => wb' = wb
           /\ events' # events =>
                 \/ wb' = wb
                 \/ wb' = [wb EXCEPT ![column_map[events'[Len(events')].column]] =
                                   Append(@, events'[Len(events')].part)] ]_vars

\* C15 witness: "Not in AceNet" holds two identifiers in emission order, and
\* the earlier entry of another column is still in place
C15_Witness ==
    /\ wb[column_map["Not in AceNet"]] = <<part_numbers[1], part_numbers[2]>>
    /\ wb[column_map["No Location"]] = <<part_numbers[1]>>
    /\ Len(events) = 3

(* C16 *)

\* the order-quantity texts that are numerals of a value above zero
\* (float("inf") is a float greater than zero)
PositiveOrderTexts == { <<"3", ".", "5">>, <<" ", "7", " ">> }

\* C16: once the order-quantity display has been probed, "On Order" has been
\* emitted for the identifier iff the display was there and its text is a
\* numeral above zero; "0", "N/A" and an absent display emit nothing, "3.5" does.
C16_OnOrderIffPositive ==
    pc = "location" =>
        /\ "On Order" \in PassCategories
              <=> (observed.found /\ observed.text \in PositiveOrderTexts)
        /\ observed \in {Absent, Found(<<"0">>), Found(<<"N", "/", "A">>)}
              => "On Order" \notin PassCategories
        /\ observed = Found(<<"3", ".", "5">>) => "On Order" \in PassCategories

\* C16 witness: the display read "3.5" and "On Order" was emitted
C16_Witness ==
    /\ pc = "location"
    /\ observed = Found(<<"3", ".", "5">>)
    /\ events # <<>>
    /\ events[Len(events)] = [part |-> LastBegun, column |-> "On Order"]

(* C17 *)

\* the texts that are empty once trimmed
BlankTexts == { <<>>, <<" ">> }

\* C17: once the location region has been probed, "No Location" has been
\* emitted for the identifier iff the region was absent or its trimmed text
\* is empty; a region that reads "Aisle 4" emits nothing.
C17_NoLocationIffBlank ==
    pc = "cleanup" =>
        /\ "No Location" \in PassCategories
              <=> (~observed.found \/ observed.text \in BlankTexts)
        /\ observed = Found(<<" ", "Aisle", "4">>)
              => "No Location" \notin PassCategories

\* C17 witness: the region was there with white space only, and "No Location"
\* was emitted
C17_Witness ==
    /\ pc = "cleanup"
    /\ observed = Found(<<" ">>)
    /\ events # <<>>
    /\ events[Len(events)] = [part |-> LastBegun, column |-> "No Location"]

(* C18 *)

\* C18 as stated: at most one browser session is running.
C18_AtMostOneLive == Cardinality(live) <= 1

\* the sessions that are running although driver.quit() was called on them:
\* the close raised, or it returned and the browser went on running
CloseFailed == live \cap quit_called

\* C18 as amended: at most one browser session is running unless a close
\* failed.  Every restart calls driver.quit() on the current session, also
\* when the budget test that follows ends the run, and calls it before the
\* replacement is started: a start that raises leaves the session restarted
\* from with its close attempted.  A session runs on only where the close
\* failed, so at most one running session has not been the target of a
\* close, and while the loop runs it is the session of driver and of
\* main_window.  No other step closes or starts a session.  The replacement
\* is a session started anew, without a pop-up; the pop-ups of the session
\* left are gone unless its close failed and no replacement was started.
C18_OneSessionInUse ==
    /\ [](/\ driver \in 1..starts
          /\ live \subseteq 1..starts
          /\ quit_called \subseteq 1..starts
          /\ Cardinality(live \ quit_called) <= 1
          /\ CloseFailed = {} => Cardinality(live) <= 1
          /\ pc \in Running =>
                /\ driver \in live \ quit_called
                /\ main_window = driver)
    /\ [][ /\ restart_count' = restart_count =>
                 /\ live' = live
                 /\ quit_called' = quit_called
                 /\ starts' = starts
                 /\ driver' = driver
           /\ restart_count' # restart_count =>
                 /\ pc \in Running
                 /\ restart_count' = restart_count + 1
                 /\ quit_called' = quit_called \cup {driver}
                 /\ live' \ {starts'} \subseteq live
                 /\ driver \in live' => driver \in CloseFailed'
                 /\ starts' \in {starts, starts + 1}
                 /\ \/ popups' = {}
                    \/ /\ popups' = popups
                       /\ driver' = driver
                       /\ driver \in CloseFailed'
                       /\ pc' \notin Running
           /\ driver' # driver =>
                 /\ starts' = starts + 1
                 /\ driver' = starts'
                 /\ driver' \notin live
                 /\ driver' \in live' \ quit_called'
                 /\ popups' = {} ]_vars

\* C18 witness: the restart called driver.quit() on session 1, the close
\* failed and session 1 is still running while the driver works with
\* session 2
C18_Witness ==
    /\ restart_count = 1
    /\ driver = 2
    /\ quit_called = {1}
    /\ live = {1, 2}
    /\ pc = "submit"

(* C19 *)

\* C19: the liveness probe never raises, so no error of the probe leaves
\* the identifier loop: the loop is left for the handler of line 661 only
\* by a session start that raised.
C19_ProbeNeverRaises == pc = "unexpected_error" => StartFailed

(* C20 *)

\* C20: no more than five events are emitted while an identifier is processed.
C20_AtMostFiveEvents == Len(PassEvents) <= 5

---------------------------------------------------------------------------
(* C21 *)

\* the event append_to_excel(column, part_number) of the current identifier
EventNow(column) == [part |-> part_numbers[idx + 1], column |-> column]

\* the step handed exactly the one event of this column to the sink
EmitsOnly(column) == events' = Append(events, EventNow(column))

\* the probe of the discovery region about to be made is the first, second
\* or third for the first identifier and the first or second for a later one
ProbeWithinLimit == pc = "discovery" => attempt + 1 <= (IF idx = 0 THEN 3 ELSE 2)

\* C21 as stated: the discovery region is probed at most 3 times for the
\* first identifier and at most 2 times for a later one; a probe that finds
\* the region ends the probing; when the probing has ended, "No Discovery"
\* was emitted iff no probe found the region or the trimmed text of the
\* region found is empty.
C21_NoDiscoveryIffNotFound ==
    /\ []ProbeWithinLimit
    /\ [][ pc = "discovery" =>
             /\ observed'.found => pc' # "discovery"
             /\ pc' # "discovery" =>
                   /\ EmitsOnly("No Discovery")
                         <=> (~observed'.found \/ Strip(observed'.text) = <<>>)
                   /\ ~EmitsOnly("No Discovery") => events' = events ]_vars

\* C21 as amended: the same, the probing having ended by a find or by the
\* last miss; an exception raised while a miss is handled ends the probing
\* at once, emits nothing and leaves the identifier to the fault handler.
C21_NoDiscoveryAfterProbing ==
    /\ []ProbeWithinLimit
    /\ [][ pc = "discovery" =>
             /\ pc' \in {"discovery", "asterisk", "except632"}
             /\ observed'.found => pc' = "asterisk"
             /\ pc' = "discovery" =>
                   /\ ~observed'.found
                   /\ attempt' = attempt + 1
                   /\ events' = events
             /\ (pc' = "asterisk" /\ ~observed'.found) =>
                   attempt + 1 = (IF idx = 0 THEN 3 ELSE 2)
             /\ pc' = "asterisk" =>
                   /\ EmitsOnly("No Discovery")
                         <=> (~observed'.found \/ Strip(observed'.text) = <<>>)
                   /\ ~EmitsOnly("No Discovery") => events' = events
             /\ pc' = "except632" =>
                   /\ ~observed'.found
                   /\ events' = events ]_vars

\* C21 witness: two probes of the first identifier missed the region and the
\* third is due
C21_Witness ==
    /\ pc = "discovery"
    /\ idx = 0
    /\ attempt = 2
    /\ observed = Absent

(* C22 *)

\* the link texts that are not empty once trimmed and hold no asterisk
PlainLinkTexts == { <<" ", "Aisle", "4">> }

\* C22: once the link inside the discovery region has been probed,
\* "No Asterisk(*)" has been emitted for the identifier iff the link was
\* there and its trimmed text is not empty and holds no asterisk; an absent
\* link, an empty text and a text with an asterisk emit nothing, whether or
\* not "No Discovery" was emitted.
C22_NoAsteriskIffPlainLink ==
    pc = "onorder" =>
        /\ "No Asterisk(*)" \in PassCategories
              <=> (observed.found /\ observed.text \in PlainLinkTexts)
        /\ observed \in {Absent, Found(<<" ">>), Found(<<"x", "*">>)}
              => "No Asterisk(*)" \notin PassCategories

\* C22 witness: the link read "Aisle 4" and "No Asterisk(*)" was emitted right
\* after "No Discovery"
C22_Witness ==
    /\ pc = "onorder"
    /\ observed = Found(<<" ", "Aisle", "4">>)
    /\ Len(events) = 2
    /\ events[1] = [part |-> LastBegun, column |-> "No Discovery"]
    /\ events[2] = [part |-> LastBegun, column |-> "No Asterisk(*)"]

(* C23 *)

\* C23: the address of the main window is tested before the windows are
\* counted.  When the address is the search-results page the identifier
\* gets "Not in AceNet" (Redirected) and no pop-up is selected, even if one
\* is open; otherwise, when no pop-up is open, the identifier gets
\* "Not in AceNet" (NoPopup); a pop-up is selected, and given the focus
\* unless the switch to it raises, only when the address is not the
\* search-results page and a pop-up is open.
C23_RedirectBeforeWindowCount ==
    [][ pc = "url" =>
          /\ main_url = SearchUrl(part_numbers[idx + 1]) =>
                /\ nav' = "Redirected"
                /\ EmitsOnly("Not in AceNet")
                /\ popup_window' = -1
                /\ pc' \in {"while", "except632"}
                /\ pc' = "while" => idx' = idx + 1
          /\ (main_url = HomeUrl /\ popups = {} /\ pc' # "except632") =>
                /\ nav' = "NoPopup"
                /\ EmitsOnly("Not in AceNet")
                /\ popup_window' = -1
                /\ pc' = "while"
                /\ idx' = idx + 1
          /\ (popup_window' # -1 \/ pc' = "iframes") =>
                /\ main_url = HomeUrl
                /\ popups # {}
                /\ popup_window' \in popups
                /\ pc' \in {"iframes", "except632"}
                /\ pc' = "iframes" <=> focus' = "popup"
                /\ pc' = "iframes" <=> nav' = "FrameSearch"
                /\ events' = events ]_vars

\* C23 witness: the first identifier was redirected while a pop-up was open
\* (it is still open: its close failed); it has the one event, and the
\* pop-up was not entered
C23_Witness ==
    /\ nav = "Redirected"
    /\ pc = "while"
    /\ idx = 1
    /\ popups = {0}
    /\ events = <<[part |-> part_numbers[1], column |-> "Not in AceNet"]>>

(* C24 *)

\* C24: the iframes of the pop-up are tried in the order of their
\* enumeration, from the first; a frame whose probe finds the content region
\* is the one the extraction works in, and no frame is tried after it; after
\* a frame whose probe fails the focus is back on the top-level document of
\* the pop-up before the next frame is tried (when the focus cannot be
\* brought back no further frame is tried); when no frame is left the
\* identifier gets "Not in AceNet" and the next identifier is reached with
\* the focus on the main window.
C24_FirstFrameWins ==
    /\ [](pc = "frame" =>
            /\ focus = "popup"
            /\ ~iframe_switched
            /\ frame_i \in 0..nframes)
    /\ [][ /\ pc' = "frame" =>
                \/ pc = "iframes" /\ frame_i' = 0
                \/ pc = "frame" /\ frame_i' = frame_i + 1 /\ nframes' = nframes
           /\ (pc = "frame" /\ frame_i < nframes) =>
                /\ pc' \in {"frame", "status", "except632"}
                /\ pc' = "status" => focus' = "frame" /\ iframe_switched'
                /\ events' = events
           /\ focus' = "frame" =>
                \/ pc = "frame" /\ frame_i < nframes /\ pc' \in {"status", "except632"}
                \/ focus = "frame" /\ pc' \notin {"iframes", "frame"}
           /\ (pc = "frame" /\ frame_i = nframes) =>
                /\ nav' = "NoFrame"
                /\ EmitsOnly("Not in AceNet")
                /\ pc' \in {"while", "except632"}
                /\ pc' = "while" => focus' = "main" /\ idx' = idx + 1 ]_vars

\* C24 witness: the probe failed in the first of two frames; the focus is on
\* the top-level document of the pop-up and the second frame is due
C24_Witness ==
    /\ pc = "frame"
    /\ nframes = 2
    /\ frame_i = 1
    /\ focus = "popup"
    /\ nav = "FrameSearch"

(* C25 *)

\* the driver went past the identifier begun last, which was never submitted
LeftUnsubmitted ==
    /\ begun # <<>>
    /\ idx > begun[Len(begun)][1]
    /\ nav = "Idle"

\* C25: the search box is looked up on the main window; only after a lookup
\* that missed it the home page is reloaded, once, and the lookup repeated;
\* an identifier is submitted only after a lookup found the box; when the
\* box is still missing after the reload the identifier is not submitted and
\* has "Not in AceNet" before the driver goes to the next identifier.
C25_ReloadOnceThenFallback ==
    /\ [](/\ pc \in {"reload", "submit"} => focus = "main" /\ nav = "Idle"
          /\ LeftUnsubmitted => PassCategories = {"Not in AceNet"})
    /\ [][ /\ pc' = "reload" => pc = "search"
           /\ pc' = "submit" => pc \in {"search", "reload"}
           /\ nav' = "Searching" => nav = "Searching" \/ pc = "submit"
           /\ pc = "reload" =>
                /\ pc' \in {"submit", "while", "except632"}
                /\ pc' = "submit" => events' = events
                /\ pc' = "while" =>
                      /\ EmitsOnly("Not in AceNet")
                      /\ idx' = idx + 1
                      /\ restart_count' = restart_count ]_vars

\* C25 witness: the search box of the first identifier was missing before
\* and after the reload; the identifier has the fallback, no restart was
\* made and the second identifier is due
C25_Witness ==
    /\ pc = "while"
    /\ idx = 1
    /\ nav = "Idle"
    /\ restart_count = 0
    /\ events = <<[part |-> part_numbers[1], column |-> "Not in AceNet"]>>

(* C26 *)

\* C26: restart_count is incremented only when the liveness probe failed or
\* a navigation fault repeated on the session.  The fault that ends the first
\* identifier begun in the run is the first fault of its session (a fault
\* ends the identifier it occurs in), so its handler leaves restart_count
\* and the session as they are.
C26_FirstFaultKeepsBudget ==
    [][ (pc \in {"except417", "except632"} /\ Len(begun) = 1) =>
            /\ restart_count' = restart_count
            /\ starts' = starts
            /\ driver' = driver ]_vars

(* C27 *)

\* C27: the pop-up the driver has switched to was opened by the search of
\* the current identifier.
C27_OwnPopup == popup_window # -1 => popup_window = idx

(* C28 *)

\* C28, the part on the index: idx changes only by the step that returns to
\* the loop head or ends the run at the end of an iteration, and then by
\* exactly one; every return to the loop head advances it; it never
\* decreases and stays within the list; so the entries of the list are begun
\* with strictly increasing indices and each entry is submitted at most
\* once, in the iteration that began it.
C28_IndexAdvancesByOne ==
    /\ [](/\ idx \in 0..Len(part_numbers)
          /\ \A i, j \in 1..Len(begun) : i < j => begun[i][1] < begun[j][1]
          /\ \A i, j \in 1..Len(submitted) : i < j => submitted[i] < submitted[j]
          /\ \A i \in 1..Len(submitted) : \E j \in 1..Len(begun) : begun[j][1] = submitted[i]
          /\ pc \in {"submit", "debug"} => begun # <<>> /\ begun[Len(begun)][1] = idx)
    /\ [][ /\ idx' \in {idx, idx + 1}
           /\ pc' = "while" => idx' = idx + 1
           /\ idx' # idx => pc \in Running /\ pc' = "while" ]_vars

\* C28, the conclusion: no identifier is submitted to the catalogue twice in
\* a run ("each identifier is submitted to the catalog at most once per run").
C28_SubmittedOncePerIdentifier ==
    \A i, j \in 1..Len(submitted) :
        i < j => part_numbers[submitted[i] + 1] # part_numbers[submitted[j] + 1]

(* C29 *)

\* C29: a step that rebinds driver to a session just started and goes on
\* with the loop stores the handle of that session's window in main_window
\* and has the focus there; when the handle cannot be read the loop is left
\* at once.  So while the loop runs main_window names a window of the
\* session driver refers to, which is the session started last and is
\* running, and every step that puts the focus on the main window does so
\* in that session.
C29_MainWindowOfCurrentSession ==
    /\ [](pc \in Running =>
            /\ main_window = current_window_handle(driver)
            /\ driver = starts
            /\ driver \in live)
    /\ [][ /\ driver' # driver =>
                /\ driver' = starts'
                /\ starts' = starts + 1
                /\ pc' \in Running =>
                      /\ main_window' = current_window_handle(driver')
                      /\ main_window' # main_window
                      /\ focus' = "main"
                /\ pc' \notin Running =>
                      /\ pc' \in {"login_failed", "unexpected_error"}
                      /\ main_window' = main_window
           /\ main_window' # main_window => driver' # driver
           /\ (focus' = "main" /\ pc' \in Running) =>
                /\ main_window' = current_window_handle(driver')
                /\ driver' \in live' ]_vars

\* C29 witness: after a restart the driver works in the main window of the
\* second session, the only one running
C29_Witness ==
    /\ pc = "submit"
    /\ focus = "main"
    /\ restart_count = max_restarts
    /\ driver = 2
    /\ main_window = 2
    /\ live = {2}

(* C30 *)

\* C30: a call of append_to_excel makes at most 5 attempts, numbered 0 to 4
\* by the loop variable; an attempt that
\* fails leaves the stored workbook as it was; the attempt that saves puts
\* the identifier at the end of its column, changes nothing else and ends
\* the call, so a call persists its entry at most once; when five attempts
\* have failed, or the column is not one of the seven, the call has written
\* nothing and returns to the caller, which goes on.
C30_AtMostFiveAttempts ==
    /\ [](/\ pc \in {"caller", "append"}
          /\ attempt \in 0..(append_attempts - 1)
          /\ pc = "append" => events[Len(events)].column \in DOMAIN column_map
          /\ TotalEntries <= Len(events))
    /\ [][ /\ pc = "append" =>
                /\ events' = events
                /\ \/ /\ wb' = wb
                      /\ attempt < append_attempts - 1
                      /\ attempt' = attempt + 1
                      /\ pc' = "append"
                   \/ /\ wb' = wb
                      /\ attempt = append_attempts - 1
                      /\ attempt' = attempt
                      /\ pc' = "caller"
                   \/ /\ wb' = [wb EXCEPT ![column_map[events[Len(events)].column]] =
                                     Append(@, events[Len(events)].part)]
                      /\ attempt' = attempt
                      /\ pc' = "caller"
           /\ pc = "caller" =>
                /\ wb' = wb
                /\ Len(events') = Len(events) + 1
                /\ pc' = "append" <=>
                      events'[Len(events')].column \in DOMAIN column_map ]_vars

\* C30 witness: the first call gave up after five failed attempts and wrote
\* nothing; the caller went on, and its second call saved on the third attempt
C30_Witness ==
    /\ pc = "caller"
    /\ Len(events) = 2
    /\ attempt = 2
    /\ TotalEntries = 1
    /\ events[1].column = "Cancelled"
    /\ wb["E"] = <<>>
    /\ wb[column_map[events[2].column]] = <<events[2].part>>

====
